---- MODULE Spec2Model ----
(***************************************************************************)
(* vibecite (src/src/vibecite/cli.py): a CLI that records paper "vibes"    *)
(* in a JSON session file, asks an external assistant for BibTeX, extracts *)
(* the fenced blocks of the reply and exports them to a bibliography file. *)
(*                                                                         *)
(* Text is a sequence of tokens: "F" is a ``` fence, "B" the word bibtex   *)
(* (any case), "N" a newline, "S" any other whitespace character, "@" an   *)
(* at-sign and "x" any other character.  An optional value (None, a        *)
(* missing key, a missing file) is the empty tuple and a present value v   *)
(* is <<v>>.  A JSON file is represented by the value its text denotes.    *)
(***************************************************************************)
EXTENDS Integers, Sequences, FiniteSets

VARIABLES
    STATE_FILE,       \* the session file .vc_state.json: <<>> or <<state>>
    settings_file,    \* .claude/settings.local.json: <<>> or <<settings>>
    files,            \* the bibliography files: absolute path -> <<>> or <<text>>
    last,             \* the command that ran last: [cmd, arg, raised]
    console,          \* what the last command printed (message tags)
    calls,            \* the assistant invocations of the last command, in order
    proc,             \* concurrent invocations: their position and in-memory state
    stats,            \* history of the concurrent runs: [started, adds, clobbered]
    segments,         \* the prose and fenced blocks the extractor's text is made of
    response,         \* the text handed to the extractor
    bibtex_entries,   \* the extractor's result: <<>> before it ran, <<entries>> after
    settings_before,  \* the permissions file before the enabler's last run
    enabled           \* the enabler's last return value: <<>> or <<ret>>

vars == <<STATE_FILE, settings_file, files, last, console, calls, proc, stats,
          segments, response, bibtex_entries, settings_before, enabled>>

(***************************************************************************)
(* Bounds of the model.                                                    *)
(***************************************************************************)
MaxVibes == 2
MaxSegments == 2
MaxAllow == 3

None == <<>>
Some(v) == <<v>>

\* Python truthiness of an optional string: neither None nor "".
Truthy(opt) == opt # None /\ opt[1] # <<>>

(***************************************************************************)
(* Strings.                                                                *)
(***************************************************************************)
IsSpace(t) == t \in {"N", "S"}

MinOf(S) == CHOOSE m \in S : \A n \in S : m <= n
MaxOf(S) == CHOOSE m \in S : \A n \in S : m >= n

\* str.strip()
strip(s) ==
    LET keep == {i \in 1..Len(s) : ~IsSpace(s[i])}
    IN  IF keep = {} THEN <<>> ELSE SubSeq(s, MinOf(keep), MaxOf(keep))

\* sep.join(list)
RECURSIVE join(_, _)
join(sep, list) ==
    IF list = <<>> THEN <<>>
    ELSE IF Len(list) = 1 THEN list[1]
    ELSE list[1] \o sep \o join(sep, Tail(list))

BlankLine == <<"N", "N">>

(***************************************************************************)
(* extract_bibtex_from_response: re.findall of                             *)
(*     ```(?:bibtex)?\s*\n(.*?)\n```     with DOTALL | IGNORECASE          *)
(* then strip and the '@' filter.                                          *)
(***************************************************************************)
\* The lazy (.*?)\n``` from position c: the first newline at or after c that a
\* fence follows; 0 when there is none.
ClosingAt(text, c) ==
    LET ends == {e \in c..(Len(text) - 1) : text[e] = "N" /\ text[e + 1] = "F"}
    IN  IF ends = {} THEN 0 ELSE MinOf(ends)

\* The greedy \s* from position j: how many whitespace tokens it can take.
SpaceRun(text, j) ==
    LET stops == {k \in 0..(Len(text) + 1 - j) :
                     j + k > Len(text) \/ ~IsSpace(text[j + k])}
    IN  MinOf(stops)

\* One attempt of the pattern at position i: [ok, group, end].
MatchAt(text, i) ==
    IF text[i] # "F" THEN [ok |-> FALSE, group |-> <<>>, end |-> 0]
    ELSE
    LET j == IF i + 1 <= Len(text) /\ text[i + 1] = "B" THEN i + 2 ELSE i + 1
        \* \s* is greedy and gives back: the longest run after which \n and
        \* the rest of the pattern still match
        ks == {k \in 0..SpaceRun(text, j) :
                  /\ j + k <= Len(text)
                  /\ text[j + k] = "N"
                  /\ ClosingAt(text, j + k + 1) # 0}
    IN  IF ks = {} THEN [ok |-> FALSE, group |-> <<>>, end |-> 0]
        ELSE LET c == j + MaxOf(ks) + 1
                 e == ClosingAt(text, c)
             IN  [ok |-> TRUE, group |-> SubSeq(text, c, e - 1), end |-> e + 1]

\* re.findall from position p: leftmost matches, not overlapping.
RECURSIVE findall(_, _)
findall(text, p) ==
    LET starts == {i \in p..Len(text) : MatchAt(text, i).ok}
    IN  IF starts = {} THEN <<>>
        ELSE LET m == MatchAt(text, MinOf(starts))
             IN  <<m.group>> \o findall(text, m.end + 1)

\* The filter of one match: cleaned and '@' in cleaned.
KeepEntry(cleaned) == cleaned # <<>> /\ \E i \in 1..Len(cleaned) : cleaned[i] = "@"

RECURSIVE clean_matches(_)
clean_matches(matches) ==
    IF matches = <<>> THEN <<>>
    ELSE LET cleaned == strip(matches[1])
         IN  (IF KeepEntry(cleaned) THEN <<cleaned>> ELSE <<>>)
             \o clean_matches(Tail(matches))


(***************************************************************************)
(* The state store.                                                        *)
(***************************************************************************)
EmptyState == [vibes |-> <<>>, current_bib |-> None]

\* (Faulty variant: the file is never read.)
load_state_fresh(file) == EmptyState
load_state(file) == IF file # None THEN file[1] ELSE EmptyState

save_state(state) == Some(state)

\* The vibe `add` builds: no raw_results key yet.
NewVibe(description) ==
    [description |-> description, results |-> None, raw_results |-> None]

(***************************************************************************)
(* check_web_search_settings.  A permissions file that parses to an object *)
(* is [kind |-> "object", permissions |-> None or <<[allow, deny, ask]>>], *)
(* each of the three None (no such key) or <<list>>.                       *)
(***************************************************************************)
DefaultSettings ==
    [kind |-> "object",
     permissions |-> Some([allow |-> Some(<<"WebSearch", "WebFetch">>),
                           deny |-> Some(<<>>),
                           ask |-> Some(<<>>)])]

InList(x, list) == \E i \in 1..Len(list) : list[i] = x

\* Lines 80-83: the missing names are appended to the list read.
\* (Faulty variant: the list read is replaced.)
amend_allow_overwrite(allowed_tools) == <<"WebSearch", "WebFetch">>
amend_allow(allowed_tools) ==
    allowed_tools
        \o (IF ~InList("WebSearch", allowed_tools) THEN <<"WebSearch">> ELSE <<>>)
        \o (IF ~InList("WebFetch", allowed_tools) THEN <<"WebFetch">> ELSE <<>>)

\* [file, ret]: the file afterwards and "True", "False" or "raise" (an
\* exception the except clause does not name).
check_web_search_settings(file) ==
    IF file = None THEN [file |-> Some(DefaultSettings), ret |-> "True"]
    ELSE
    LET settings == file[1]
    IN  IF settings.kind = "malformed"                     \* JSONDecodeError
        THEN [file |-> file, ret |-> "False"]
        ELSE IF settings.kind # "object"                   \* AttributeError on .get
        THEN [file |-> file, ret |-> "raise"]
        ELSE
        LET perms == settings.permissions
            allowed_tools == IF perms # None /\ perms[1].allow # None
                             THEN perms[1].allow[1] ELSE <<>>
            has_websearch == InList("WebSearch", allowed_tools)
            has_webfetch == InList("WebFetch", allowed_tools)
        IN  IF ~has_websearch \/ ~has_webfetch
            THEN IF perms = None                           \* KeyError
                 THEN [file |-> file, ret |-> "False"]
                 ELSE [file |-> Some([settings EXCEPT !.permissions =
                                   Some([perms[1] EXCEPT !.allow =
                                           Some(amend_allow(allowed_tools))])]),
                       ret |-> "True"]
            ELSE [file |-> file, ret |-> "True"]

\* enable_web_search_with_consent: the message it prints.
enable_message(ret) ==
    IF ret = "True" THEN <<"WebSearch and WebFetch tools are enabled!">>
    ELSE <<"Failed to configure search tools in Claude settings.">>

(***************************************************************************)
(* call_claude_code.  What subprocess.run does is the environment's        *)
(* choice: it returns (exit status 0) with some standard output, or raises *)
(* CalledProcessError (nonzero exit), FileNotFoundError (no executable) or *)
(* another OSError such as PermissionError (an executable that may not be  *)
(* run).                                                                   *)
(***************************************************************************)
\* A reply with a bibtex block and an untagged block, each holding an entry.
ReplyBlocks ==
    <<"x", "N", "F", "B", "N", "@", "N", "F", "N", "F", "N", "x", "@", "N", "F">>
\* A reply with no fenced block.
ReplyPlain == <<"x", "@">>

Stdouts == {<<>>, ReplyBlocks, ReplyPlain}

\* The extractor's results on the replies above, computed once.
ExtractedReplies == [text \in Stdouts |-> clean_matches(findall(text, 1))]

extract_bibtex_from_response(text) ==
    IF text \in Stdouts THEN ExtractedReplies[text]
    ELSE clean_matches(findall(text, 1))

Outcomes ==
    [kind : {"ok"}, stdout : Stdouts]
        \cup [kind : {"CalledProcessError", "FileNotFoundError", "PermissionError"},
              stdout : {<<>>}]

\* The exceptions the except clauses name (lines 136 and 141).
\* (Faulty variant: the second except clause is missing.)
CaughtOnlyNonzeroExit == {"CalledProcessError"}
Caught == {"CalledProcessError", "FileNotFoundError"}

\* [raised, ret]
call_claude_code(outcome) ==
    IF outcome.kind = "ok" THEN [raised |-> FALSE, ret |-> outcome.stdout]
    ELSE IF outcome.kind \in Caught THEN [raised |-> FALSE, ret |-> <<>>]
    ELSE [raised |-> TRUE, ret |-> <<>>]

(***************************************************************************)
(* The commands' steps.                                                    *)
(***************************************************************************)
\* Line 211: a vibe whose results is truthy is skipped.
\* (Faulty variant: every vibe is searched again.)
skip_vibe_never(vibe) == FALSE
skip_vibe(vibe) == Truthy(vibe.results)

\* Lines 223-237: what one reply of the invoker does to a vibe.
\* (Faulty variant: the reply is stored as it is, never its entries.)
store_results_raw_only(vibe, results) ==
    IF results # <<>>
    THEN [vibe EXCEPT !.raw_results = Some(results), !.results = Some(results)]
    ELSE vibe
store_results(vibe, results) ==
    IF results # <<>>
    THEN LET entries == extract_bibtex_from_response(results)
         IN  [vibe EXCEPT !.raw_results = Some(results),
                          !.results = IF entries # <<>>
                                      THEN Some(join(BlankLine, entries))
                                      ELSE Some(results)]
    ELSE vibe

search_message(results) ==
    IF results = <<>> THEN "Search failed"
    ELSE IF extract_bibtex_from_response(results) # <<>>
    THEN "Search completed! Found BibTeX entries."
    ELSE "Search completed but no BibTeX code blocks found. Using raw response."

\* Lines 210-237: the loop from vibe i on; outs[i] is what the subprocess
\* does when vibe i is searched.  [vibes, calls, raised]
RECURSIVE search_loop(_, _, _, _)
search_loop(vibes, i, outs, made) ==
    IF i > Len(vibes) THEN [vibes |-> vibes, calls |-> made, raised |-> FALSE]
    ELSE IF skip_vibe(vibes[i]) THEN search_loop(vibes, i + 1, outs, made)
    ELSE
    LET r == call_claude_code(outs[i])
        c == [i |-> i, kind |-> outs[i].kind, ret |-> r.ret, raised |-> r.raised]
    IN  IF r.raised
        THEN [vibes |-> vibes, calls |-> Append(made, c), raised |-> TRUE]
        ELSE search_loop([vibes EXCEPT ![i] = store_results(@, r.ret)],
                         i + 1, outs, Append(made, c))

RECURSIVE call_messages(_)
call_messages(made) ==
    IF made = <<>> THEN <<>>
    ELSE (IF made[1].raised THEN <<"Searching for">>
          ELSE <<"Searching for", search_message(made[1].ret)>>)
         \o call_messages(Tail(made))

\* Lines 252-255: the results of the vibes that have some, in order.
\* (Faulty variant: the results come out last vibe first.)
RECURSIVE all_results_reversed(_)
all_results_reversed(vibes) ==
    IF vibes = <<>> THEN <<>>
    ELSE all_results_reversed(Tail(vibes))
         \o (IF Truthy(vibes[1].results) THEN <<vibes[1].results[1]>> ELSE <<>>)
RECURSIVE all_results(_)
all_results(vibes) ==
    IF vibes = <<>> THEN <<>>
    ELSE (IF Truthy(vibes[1].results) THEN <<vibes[1].results[1]>> ELSE <<>>)
         \o all_results(Tail(vibes))

\* Path.absolute() in the working directory, which is where a relative path
\* is opened.
Absolute(path) ==
    CASE path = "refs.bib" -> "/cwd/refs.bib"
      [] path = "out.bib" -> "/cwd/out.bib"
      [] OTHER -> path

BibFiles == {"/cwd/refs.bib", "/cwd/out.bib"}
BibOptions == {None, Some("out.bib")}

\* Path.touch()
touch(fs, path) ==
    IF fs[Absolute(path)] = None THEN [fs EXCEPT ![Absolute(path)] = Some(<<>>)]
    ELSE fs

\* Path.write_text()
write_text(fs, path, text) == [fs EXCEPT ![Absolute(path)] = Some(text)]

\* Lines 278-299 of ls, for one vibe.
ls_vibe(vibe) ==
    IF Truthy(vibe.results)
    THEN <<"Vibe", "Has parsed results">>
         \o (IF Truthy(vibe.raw_results) THEN <<"Raw Claude Response:">> ELSE <<>>)
         \o <<"Parsed BibTeX:">>
         \o (IF extract_bibtex_from_response(
                    IF vibe.raw_results # None THEN vibe.raw_results[1] ELSE <<>>) # <<>>
             THEN <<"entries">>
             ELSE <<"No BibTeX entries found in response">>)
    ELSE <<"Vibe", "No results yet">>

RECURSIVE ls_vibes(_)
ls_vibes(vibes) ==
    IF vibes = <<>> THEN <<>> ELSE ls_vibe(vibes[1]) \o ls_vibes(Tail(vibes))

\* What ls prints for a session.
ls_output(state) ==
    IF state.vibes = <<>> THEN <<"No vibes recorded">> ELSE ls_vibes(state.vibes)

(***************************************************************************)
(* The commands, one CLI invocation after another.                         *)
(***************************************************************************)
ArgLists == {<<>>, << <<"gnn">> >>, << <<"attention">>, <<"mechanisms">> >>}

Ran(cmd, arg, raised) == [cmd |-> cmd, arg |-> arg, raised |-> raised]

other_vars == <<proc, stats, segments, response, bibtex_entries, settings_before, enabled>>

init(bib) ==
    LET state == load_state(STATE_FILE)
        given == bib # None /\ bib[1] # ""
        path == IF given THEN bib[1] ELSE "refs.bib"
    IN  /\ files' = touch(files, path)
        /\ STATE_FILE' = save_state([state EXCEPT !.current_bib = Some(Absolute(path))])
        /\ console' = (IF given /\ files[Absolute(path)] # None THEN <<>>
                       ELSE <<"Created bibliography file">>)
                      \o <<"Project initialized with bibliography">>
        /\ last' = Ran("init", bib, FALSE)
        /\ calls' = <<>>
        /\ UNCHANGED <<settings_file, other_vars>>

\* The vibes after `add` appended one.
\* (Faulty variant: the vibe is put first.)
append_vibe_first(vibes, vibe) == <<vibe>> \o vibes
append_vibe(vibes, vibe) == Append(vibes, vibe)

add(args) ==
    /\ last' = Ran("add", args, FALSE)
    /\ calls' = <<>>
    /\ IF args = <<>>
       THEN /\ console' = <<"Please provide a description after --">>
            /\ UNCHANGED STATE_FILE
       ELSE LET description == join(<<" ">>, args)
                state == load_state(STATE_FILE)
            IN  /\ Len(state.vibes) < MaxVibes
                /\ STATE_FILE' = save_state(
                       [state EXCEPT !.vibes = append_vibe(@, NewVibe(description))])
                /\ console' = <<"Added vibe">>
    /\ UNCHANGED <<settings_file, files, other_vars>>

\* `outcomes`: what the subprocess may do in this run.
search(outcomes) ==
    LET state == load_state(STATE_FILE)
    IN  IF state.vibes = <<>>
        THEN /\ console' = <<"No vibes added yet.">>
             /\ last' = Ran("search", None, FALSE)
             /\ calls' = <<>>
             /\ UNCHANGED <<STATE_FILE, settings_file, files, other_vars>>
        ELSE
        LET en == check_web_search_settings(settings_file)
        IN  IF en.ret = "raise"
            THEN /\ console' = <<>>
                 /\ last' = Ran("search", None, TRUE)
                 /\ calls' = <<>>
                 /\ UNCHANGED <<STATE_FILE, settings_file, files, other_vars>>
            ELSE
            \E outs \in [{i \in 1..Len(state.vibes) : ~skip_vibe(state.vibes[i])}
                            -> outcomes] :
                LET r == search_loop(state.vibes, 1, outs, <<>>)
                IN  /\ settings_file' = en.file
                    /\ STATE_FILE' = IF r.raised THEN STATE_FILE
                                     ELSE save_state([state EXCEPT !.vibes = r.vibes])
                    /\ console' = enable_message(en.ret) \o call_messages(r.calls)
                    /\ last' = Ran("search", None, r.raised)
                    /\ calls' = r.calls
                    /\ UNCHANGED <<files, other_vars>>

\* Line 257: nothing to export.
\* (Faulty variant: the early return is missing.)
nothing_to_export_never(results) == FALSE
nothing_to_export(results) == results = <<>>

export(bib) ==
    LET state == load_state(STATE_FILE)
        output_file == IF bib # None /\ bib[1] # "" THEN bib[1]
                       ELSE IF state.current_bib # None /\ state.current_bib[1] # ""
                       THEN state.current_bib[1]
                       ELSE "refs.bib"
        results == all_results(state.vibes)
    IN  /\ last' = Ran("export", bib, FALSE)
        /\ calls' = <<>>
        /\ IF nothing_to_export(results)
           THEN /\ console' = <<"No search results to export.">>
                /\ UNCHANGED files
           ELSE /\ files' = write_text(files, output_file, join(BlankLine, results))
                /\ console' = <<"Exported">>
        /\ UNCHANGED <<STATE_FILE, settings_file, other_vars>>

ls ==
    /\ console' = ls_output(load_state(STATE_FILE))
    /\ last' = Ran("ls", None, FALSE)
    /\ calls' = <<>>
    /\ UNCHANGED <<STATE_FILE, settings_file, files, other_vars>>

\* The session file after `clear`.
\* (Faulty variant: the file stays.)
unlink_keep(file) == file
unlink(file) == None

clear ==
    /\ STATE_FILE' = (IF STATE_FILE # None THEN unlink(STATE_FILE) ELSE STATE_FILE)
    /\ console' = <<"Session cleared">>
    /\ last' = Ran("clear", None, FALSE)
    /\ calls' = <<>>
    /\ UNCHANGED <<settings_file, files, other_vars>>

\* An invocation: where it is, its copy of the session, the loop's index, its
\* arguments and (history) the session file as it was when loaded.
Idle == [pc |-> "idle", state |-> EmptyState, i |-> 0, arg |-> <<>>, loaded |-> None]

Init ==
    /\ STATE_FILE = None
    /\ settings_file = None
    /\ files = [p \in BibFiles |-> None]
    /\ last = Ran("none", None, FALSE)
    /\ console = <<>>
    /\ calls = <<>>
    /\ proc = [p \in {1, 2} |-> Idle]
    /\ stats = [started |-> 0, adds |-> 0, clobbered |-> {}]
    /\ segments = <<>>
    /\ response = <<>>
    /\ bibtex_entries = None
    /\ settings_before = None
    /\ enabled = None

\* One invocation after another, the bibliography at its default path, the
\* assistant answering (with or without text) or exiting with an error.
AnsweringOutcomes == {o \in Outcomes : o.kind \in {"ok", "CalledProcessError"}}

Next ==
    \/ init(None)
    \/ \E args \in ArgLists : add(args)
    \/ search(AnsweringOutcomes)
    \/ export(None)
    \/ ls
    \/ clear

Spec == Init /\ [][Next]_vars

\* One invocation after another with --bib given or not, the assistant
\* answering or exiting with an error.
ExportOutcomes ==
    {o \in Outcomes : o.kind = "CalledProcessError" \/ o.stdout # <<>>}

NextExport ==
    \/ \E bib \in BibOptions : init(bib)
    \/ add(<< <<"gnn">> >>)
    \/ search(ExportOutcomes)
    \/ \E bib \in BibOptions : export(bib)
    \/ clear

SpecExport == Init /\ [][NextExport]_vars

\* One invocation after another, the assistant failing in every way it can.
NextFail ==
    \/ \E args \in ArgLists : add(args)
    \/ search(Outcomes)
    \/ ls
    \/ clear

SpecFail == Init /\ [][NextFail]_vars

(***************************************************************************)
(* Properties of the commands run one after another.                       *)
(***************************************************************************)
PersistedVibes == load_state(STATE_FILE).vibes

\* The vibes the last command called the assistant for.
Queried == {calls[n].i : n \in 1..Len(calls)}

HasResults(vibe) == vibe.results # None /\ vibe.results[1] # <<>>

\* C1: once a vibe's results is set, every later command but clear keeps the
\* vibe with the same results and raw_results, and a search does not call the
\* assistant for it: search queries only vibes whose results is unset.
C1_SetResultsNeverSearchedAgain ==
    [][\A k \in 1..Len(PersistedVibes) :
          HasResults(PersistedVibes[k]) /\ last'.cmd # "clear"
          => /\ k <= Len(PersistedVibes')
             /\ PersistedVibes'[k].results = PersistedVibes[k].results
             /\ PersistedVibes'[k].raw_results = PersistedVibes[k].raw_results
             /\ k \notin Queried']_vars

\* A search that called the assistant for one vibe and skipped another, which
\* had its results already.
C1_Witness ==
    /\ last.cmd = "search"
    /\ calls # <<>>
    /\ \E k \in 1..Len(PersistedVibes) :
          HasResults(PersistedVibes[k]) /\ k \notin Queried

\* C2: no command but clear removes, reorders or re-describes a persisted
\* vibe; add with a description appends exactly one vibe with unset results
\* and leaves the others as they were.
C2_VibesOnlyAppended ==
    [][last'.cmd # "clear"
       => /\ Len(PersistedVibes') >= Len(PersistedVibes)
          /\ \A k \in 1..Len(PersistedVibes) :
                PersistedVibes'[k].description = PersistedVibes[k].description
          /\ (last'.cmd = "add" /\ last'.arg # <<>>
              => /\ Len(PersistedVibes') = Len(PersistedVibes) + 1
                 /\ SubSeq(PersistedVibes', 1, Len(PersistedVibes)) = PersistedVibes
                 /\ PersistedVibes'[Len(PersistedVibes')].results = None
                 /\ PersistedVibes'[Len(PersistedVibes')].raw_results = None
                 /\ PersistedVibes'[Len(PersistedVibes')].description
                        \in {<<"gnn">>, <<"attention", " ", "mechanisms">>})
          /\ (last'.cmd \in {"init", "export", "ls"}
              => PersistedVibes' = PersistedVibes)]_vars

\* An add that put a second, differently described vibe after one that
\* already has results.
C2_Witness ==
    /\ last.cmd = "add"
    /\ Len(PersistedVibes) = 2
    /\ HasResults(PersistedVibes[1])
    /\ PersistedVibes[2].results = None
    /\ PersistedVibes[2].description = last.arg[1]
    /\ PersistedVibes[1].description # PersistedVibes[2].description

\* C5: clear leaves no session file, and an ls that follows it reports that
\* no vibes are recorded.
C5_ClearThenLsReportsNoVibes ==
    [][/\ last'.cmd = "clear" => STATE_FILE' = None
       /\ last.cmd = "clear" /\ last'.cmd = "ls"
          => console' = <<"No vibes recorded">>]_vars

\* An ls after a clear that removed a session whose results had been
\* exported.
C5_Witness ==
    /\ last.cmd = "ls"
    /\ STATE_FILE = None
    /\ console = <<"No vibes recorded">>
    /\ files["/cwd/refs.bib"] # None
    /\ files["/cwd/refs.bib"][1] # <<>>

(***************************************************************************)
(* Properties of export.                                                   *)
(***************************************************************************)
\* The results of the first n vibes that have some, a blank line between
\* each two: None when none of them has results.
RECURSIVE JoinedResults(_, _)
JoinedResults(vibes, n) ==
    IF n = 0 THEN None
    ELSE LET before == JoinedResults(vibes, n - 1)
         IN  IF ~HasResults(vibes[n]) THEN before
             ELSE IF before = None THEN Some(vibes[n].results[1])
             ELSE Some(before[1] \o <<"N", "N">> \o vibes[n].results[1])

\* The file export writes: --bib, else the session's bibliography, else
\* refs.bib in the working directory.
ExportTarget(bib, file) ==
    IF bib # None THEN "/cwd/" \o bib[1]
    ELSE IF file # None /\ file[1].current_bib # None THEN file[1].current_bib[1]
    ELSE "/cwd/refs.bib"

\* C3: when some vibe has results, export makes the target file hold exactly
\* the stored results of the vibes that have some, in insertion order, a blank
\* line between them, and changes neither another file nor the session.
C3_ExportWritesJoinedResults ==
    [][last'.cmd = "export"
       /\ (\E k \in 1..Len(PersistedVibes) : HasResults(PersistedVibes[k]))
       => LET target == ExportTarget(last'.arg, STATE_FILE)
          IN  /\ files'[target] = JoinedResults(PersistedVibes, Len(PersistedVibes))
              /\ \A f \in BibFiles \ {target} : files'[f] = files[f]
              /\ STATE_FILE' = STATE_FILE]_vars

\* An export of two vibes with different results: the file holds the first
\* vibe's results, a blank line, the second's.
C3_Witness ==
    /\ last.cmd = "export"
    /\ Len(PersistedVibes) = 2
    /\ HasResults(PersistedVibes[1])
    /\ HasResults(PersistedVibes[2])
    /\ PersistedVibes[1].results # PersistedVibes[2].results
    /\ files[ExportTarget(last.arg, STATE_FILE)]
           = Some(PersistedVibes[1].results[1] \o <<"N", "N">>
                      \o PersistedVibes[2].results[1])

\* C4: a search of a session with no vibes writes neither the session file
\* nor the permissions file and calls no assistant; an export when no vibe
\* has results creates or changes no file, the session file included.
C4_NothingToActOnNoSideEffects ==
    [][/\ last'.cmd = "search" /\ PersistedVibes = <<>>
          => /\ STATE_FILE' = STATE_FILE
             /\ settings_file' = settings_file
             /\ files' = files
             /\ calls' = <<>>
             /\ ~last'.raised
       /\ last'.cmd = "export"
          /\ (\A k \in 1..Len(PersistedVibes) : ~HasResults(PersistedVibes[k]))
          => /\ files' = files
             /\ STATE_FILE' = STATE_FILE
             /\ settings_file' = settings_file
             /\ ~last'.raised]_vars

\* An export of two vibes never searched: it reports that there is nothing to
\* export and no bibliography file exists.
C4_Witness ==
    /\ last.cmd = "export"
    /\ console = <<"No search results to export.">>
    /\ Len(PersistedVibes) = 2
    /\ \A f \in BibFiles : files[f] = None

(***************************************************************************)
(* Properties of search and of the invoker.                                *)
(***************************************************************************)
InvocationFailures == {"CalledProcessError", "FileNotFoundError", "PermissionError"}

\* C6 as stated: on every invocation failure (nonzero exit, missing
\* executable, any other) the invoker returns the empty string and does not
\* raise.
C6_EveryFailureReturnsEmpty ==
    \A n \in 1..Len(calls) :
        calls[n].kind \in InvocationFailures
        => calls[n].ret = <<>> /\ ~calls[n].raised /\ ~last.raised

\* The vibes search still had to query after vibe i, up to the one whose
\* invocation raised, if one did.
Reached(made) ==
    IF \E n \in 1..Len(made) : made[n].raised
    THEN 1..(CHOOSE i \in {made[n].i : n \in 1..Len(made)} :
                \E n \in 1..Len(made) : made[n].i = i /\ made[n].raised)
    ELSE Nat

\* C6 amended: on a nonzero exit status or a missing executable the invoker
\* returns the empty string and does not raise; the vibe's results stays
\* unset, search goes on to the remaining vibes without results, and the
\* persisted results of the other vibes are unchanged.  Any other invocation
\* failure raises out of search, which then leaves the session file as it
\* was.
C6_CaughtFailuresReturnEmpty ==
    [][last'.cmd = "search"
       => /\ \A n \in 1..Len(calls') :
                calls'[n].kind \in {"CalledProcessError", "FileNotFoundError"}
                => /\ calls'[n].ret = <<>>
                   /\ ~calls'[n].raised
                   /\ PersistedVibes'[calls'[n].i].results = None
                   /\ \A k \in (calls'[n].i + 1)..Len(PersistedVibes) :
                         ~HasResults(PersistedVibes[k]) /\ k \in Reached(calls')
                         => k \in Queried'
          /\ \A k \in 1..Len(PersistedVibes) :
                HasResults(PersistedVibes[k])
                => PersistedVibes'[k].results = PersistedVibes[k].results
          /\ \A n \in 1..Len(calls') :
                calls'[n].kind = "PermissionError"
                => calls'[n].raised /\ last'.raised /\ STATE_FILE' = STATE_FILE]_vars

\* A search whose first invocation found no executable and whose second got a
\* reply: the first vibe's results is unset, the second's is set.
C6_Witness ==
    /\ last.cmd = "search"
    /\ ~last.raised
    /\ Len(calls) = 2
    /\ calls[1].kind = "FileNotFoundError"
    /\ calls[2].kind = "ok"
    /\ PersistedVibes[calls[1].i].results = None
    /\ HasResults(PersistedVibes[calls[2].i])

\* C10: a search that returns has given every vibe it got a non-empty reply R
\* for raw_results R and results the extracted entries of R with a blank line
\* between them, or R itself when no entry is extracted; a persisted results
\* is unset or a non-empty string.
C10_SearchStoresEntriesOrRawReply ==
    [][/\ last'.cmd = "search" /\ ~last'.raised
          => \A n \in 1..Len(calls') :
                calls'[n].ret # <<>>
                => LET R == calls'[n].ret
                       vibe == PersistedVibes'[calls'[n].i]
                       entries == extract_bibtex_from_response(R)
                   IN  /\ PersistedVibes[calls'[n].i].results = None
                       /\ vibe.raw_results = Some(R)
                       /\ vibe.results = IF entries # <<>>
                                         THEN Some(join(<<"N", "N">>, entries))
                                         ELSE Some(R)
       /\ \A k \in 1..Len(PersistedVibes') :
             PersistedVibes'[k].results = None
             \/ (Len(PersistedVibes'[k].results) = 1
                 /\ PersistedVibes'[k].results[1] # <<>>)]_vars

\* A search that stored the two joined entries of one reply and, for a reply
\* with no fenced block, the reply itself.
C10_Witness ==
    /\ last.cmd = "search"
    /\ ~last.raised
    /\ Len(calls) = 2
    /\ calls[1].ret = ReplyBlocks
    /\ calls[2].ret = ReplyPlain
    /\ PersistedVibes[1].raw_results = Some(ReplyBlocks)
    /\ PersistedVibes[1].results = Some(<<"@", "N", "N", "x", "@">>)
    /\ PersistedVibes[2].raw_results = Some(ReplyPlain)
    /\ PersistedVibes[2].results = Some(ReplyPlain)

(***************************************************************************)
(* The extractor on its own: a text of up to MaxSegments segments, each a  *)
(* line of prose or a fenced block (tagged bibtex, untagged, or tagged     *)
(* with another language), one segment per line group.                     *)
(***************************************************************************)
BlockContents == {<<"@">>, <<"x", "@">>, <<"x">>, <<"S">>}

Segments ==
    [tag : {"bibtex", "", "python"}, content : BlockContents]
        \cup [tag : {"prose"}, content : {<<"x">>}]

TagText(tag) ==
    CASE tag = "bibtex" -> <<"B">>
      [] tag = "python" -> <<"x">>
      [] OTHER -> <<>>

RenderSegment(seg) ==
    IF seg.tag = "prose" THEN seg.content
    ELSE <<"F">> \o TagText(seg.tag) \o <<"N">> \o seg.content \o <<"N", "F">>

RenderText(segs) == join(<<"N">>, [i \in 1..Len(segs) |-> RenderSegment(segs[i])])

InitExtract ==
    /\ segments \in UNION {[1..n -> Segments] : n \in 0..MaxSegments}
    /\ response = RenderText(segments)
    /\ bibtex_entries = None
    /\ STATE_FILE = None
    /\ settings_file = None
    /\ files = [p \in BibFiles |-> None]
    /\ last = Ran("none", None, FALSE)
    /\ console = <<>>
    /\ calls = <<>>
    /\ proc = [p \in {1, 2} |-> Idle]
    /\ stats = [started |-> 0, adds |-> 0, clobbered |-> {}]
    /\ settings_before = None
    /\ enabled = None

run_extract ==
    /\ bibtex_entries = None
    /\ bibtex_entries' = Some(extract_bibtex_from_response(response))
    /\ UNCHANGED <<STATE_FILE, settings_file, files, last, console, calls, proc,
                   stats, segments, response, settings_before, enabled>>

NextExtract == run_extract

SpecExtract == InitExtract /\ [][NextExtract]_vars

\* The trimmed contents, in order, of the blocks tagged bibtex whose trimmed
\* content holds an "@".
RECURSIVE TaggedEntries(_)
TaggedEntries(segs) ==
    IF segs = <<>> THEN <<>>
    ELSE (IF segs[1].tag = "bibtex" /\ InList("@", strip(segs[1].content))
          THEN <<strip(segs[1].content)>> ELSE <<>>)
         \o TaggedEntries(Tail(segs))

\* a occurs in b, in order.
RECURSIVE IsSubsequence(_, _)
IsSubsequence(a, b) ==
    IF a = <<>> THEN TRUE
    ELSE IF b = <<>> THEN FALSE
    ELSE IF a[1] = b[1] THEN IsSubsequence(Tail(a), Tail(b))
    ELSE IsSubsequence(a, Tail(b))

\* C7: the extractor returns the trimmed content of every block tagged bibtex
\* whose trimmed content holds an "@", in the order of the blocks, and no
\* entry that is empty or holds no "@".
C7_TaggedBlocksExtractedInOrder ==
    bibtex_entries # None
    => /\ IsSubsequence(TaggedEntries(segments), bibtex_entries[1])
       /\ \A n \in 1..Len(bibtex_entries[1]) : InList("@", bibtex_entries[1][n])

(***************************************************************************)
(* The enabler on its own: any permissions file, the enabler run on it     *)
(* again and again.                                                        *)
(***************************************************************************)
Tools == {"WebSearch", "WebFetch", "Bash"}

AllowLists == UNION {[1..n -> Tools] : n \in 0..MaxAllow}

SettingsInputs ==
    {None,
     Some([kind |-> "malformed", permissions |-> None]),
     Some([kind |-> "array", permissions |-> None]),
     Some([kind |-> "object", permissions |-> None])}
        \cup {Some([kind |-> "object", permissions |-> Some(perms)]) :
                perms \in [allow : {None} \cup {Some(l) : l \in AllowLists},
                           deny : {None, Some(<<"Bash">>)},
                           ask : {None}]}

InitEnabler ==
    /\ settings_file \in SettingsInputs
    /\ settings_before = None
    /\ enabled = None
    /\ STATE_FILE = None
    /\ files = [p \in BibFiles |-> None]
    /\ last = Ran("none", None, FALSE)
    /\ console = <<>>
    /\ calls = <<>>
    /\ proc = [p \in {1, 2} |-> Idle]
    /\ stats = [started |-> 0, adds |-> 0, clobbered |-> {}]
    /\ segments = <<>>
    /\ response = <<>>
    /\ bibtex_entries = None

run_check_web_search_settings ==
    LET r == check_web_search_settings(settings_file)
    IN  /\ settings_before' = settings_file
        /\ settings_file' = r.file
        /\ enabled' = Some(r.ret)
        /\ UNCHANGED <<STATE_FILE, files, last, console, calls, proc, stats,
                       segments, response, bibtex_entries>>

NextEnabler == run_check_web_search_settings

SpecEnabler == InitEnabler /\ [][NextEnabler]_vars

\* The allow-list of a permissions file: None when the file is missing, is
\* no JSON object or has no permissions.allow.
AllowOf(file) ==
    IF file # None /\ file[1].kind = "object" /\ file[1].permissions # None
    THEN file[1].permissions[1].allow
    ELSE None

IsPrefix(a, b) == Len(a) <= Len(b) /\ SubSeq(b, 1, Len(a)) = a

\* C9: on a file that already allows WebSearch and WebFetch the enabler
\* changes nothing and reports success; whenever it reports success, the
\* allow-list afterwards holds both names after every entry it held before,
\* those in their order, and running the enabler again changes nothing.
C9_EnablerIdempotentAppendOnly ==
    [][enabled' # None
       => LET before == AllowOf(settings_file)
              after == AllowOf(settings_file')
          IN  /\ (before # None /\ InList("WebSearch", before[1])
                                /\ InList("WebFetch", before[1])
                  => settings_file' = settings_file /\ enabled' = Some("True"))
              /\ (enabled' = Some("True")
                  => /\ after # None
                     /\ InList("WebSearch", after[1])
                     /\ InList("WebFetch", after[1])
                     /\ before # None => IsPrefix(before[1], after[1])
                     /\ check_web_search_settings(settings_file').file = settings_file'
                     /\ check_web_search_settings(settings_file').ret = "True")]_vars

\* A run on a file that allowed only Bash: both names were appended after it.
C9_Witness ==
    /\ enabled = Some("True")
    /\ AllowOf(settings_before) = Some(<<"Bash">>)
    /\ AllowOf(settings_file) = Some(<<"Bash", "WebSearch", "WebFetch">>)
    /\ settings_file[1].permissions[1].deny = settings_before[1].permissions[1].deny

(***************************************************************************)
(* Two CLI invocations at a time in the same directory.  An invocation is  *)
(* a process of its own: it loads the session file, works on its copy and  *)
(* saves it; nothing locks the file, so the steps of two invocations       *)
(* interleave in any order.                                                *)
(***************************************************************************)
Procs == {1, 2}

ConcurrentOutcomes ==
    {o \in Outcomes : o.kind = "CalledProcessError" \/ o.stdout = ReplyBlocks}

Busy(p) == proc[p].pc # "idle"

seq_vars == <<last, console, calls, segments, response, bibtex_entries,
              settings_before, enabled>>

\* (History) the command of p when its save overwrites a session file that
\* was written since p loaded it.
Clobbers(p) == IF STATE_FILE # proc[p].loaded THEN {proc[p].pc} ELSE {}

\* add, lines 178-185: the arguments are there and the session is loaded.
add_load(p, args) ==
    /\ ~Busy(p)
    /\ args # <<>>
    /\ stats.started < MaxVibes
    /\ proc' = [proc EXCEPT ![p] = [pc |-> "add", state |-> load_state(STATE_FILE),
                                    i |-> 0, arg |-> args, loaded |-> STATE_FILE]]
    /\ stats' = [stats EXCEPT !.started = @ + 1]
    /\ UNCHANGED <<STATE_FILE, settings_file, files, seq_vars>>

\* add, lines 187-193: the vibe is appended to the copy and the copy saved.
add_save(p) ==
    /\ proc[p].pc = "add"
    /\ STATE_FILE' = save_state(
           [proc[p].state EXCEPT
               !.vibes = append_vibe(@, NewVibe(join(<<" ">>, proc[p].arg)))])
    /\ proc' = [proc EXCEPT ![p] = Idle]
    /\ stats' = [stats EXCEPT !.adds = @ + 1,
                              !.clobbered = @ \cup Clobbers(p)]
    /\ UNCHANGED <<settings_file, files, seq_vars>>

\* search, lines 201-208: the session is loaded; with vibes in it the
\* enabler runs and the loop starts.
search_load(p) ==
    /\ ~Busy(p)
    /\ LET state == load_state(STATE_FILE)
           en == check_web_search_settings(settings_file)
       IN  IF state.vibes = <<>> \/ en.ret = "raise"
           THEN UNCHANGED <<proc, settings_file>>
           ELSE /\ proc' = [proc EXCEPT ![p] = [pc |-> "search", state |-> state,
                                                i |-> 1, arg |-> <<>>,
                                                loaded |-> STATE_FILE]]
                /\ settings_file' = en.file
    /\ UNCHANGED <<STATE_FILE, files, stats, seq_vars>>

\* search, lines 210-237: one turn of the loop, the assistant's answer
\* awaited; an exception ends the invocation.
search_call(p, outcome) ==
    /\ proc[p].pc = "search"
    /\ proc[p].i <= Len(proc[p].state.vibes)
    /\ LET i == proc[p].i
           vibe == proc[p].state.vibes[i]
           r == call_claude_code(outcome)
       IN  IF skip_vibe(vibe)
           THEN proc' = [proc EXCEPT ![p].i = i + 1]
           ELSE IF r.raised
           THEN proc' = [proc EXCEPT ![p] = Idle]
           ELSE proc' = [proc EXCEPT ![p].i = i + 1,
                                     ![p].state.vibes[i] = store_results(vibe, r.ret)]
    /\ UNCHANGED <<STATE_FILE, settings_file, files, stats, seq_vars>>

\* search, line 239.
search_save(p) ==
    /\ proc[p].pc = "search"
    /\ proc[p].i > Len(proc[p].state.vibes)
    /\ STATE_FILE' = save_state(proc[p].state)
    /\ proc' = [proc EXCEPT ![p] = Idle]
    /\ stats' = [stats EXCEPT !.clobbered = @ \cup Clobbers(p)]
    /\ UNCHANGED <<settings_file, files, seq_vars>>

NextConc ==
    \E p \in Procs :
        \/ \E args \in ArgLists \ {<<>>} : add_load(p, args)
        \/ add_save(p)
        \/ search_load(p)
        \/ \E outcome \in ConcurrentOutcomes : search_call(p, outcome)
        \/ search_save(p)

SpecConc == Init /\ [][NextConc]_vars

\* C8: with no lock on the session file an invocation's save can undo
\* another's (the last writer wins): a vibe that a finished add saved is
\* missing from the session file only after some invocation saved its copy
\* over a file written since it loaded, and that case is reached.
C8_UpdatesLostOnlyByStaleSave ==
    Len(PersistedVibes) < stats.adds => stats.clobbered # {}

\* Both invocations are over and two adds have saved their vibe, yet the
\* session file holds one vibe, with results: a search saved its copy over a
\* file written since it loaded, and no add did.
C8_Witness ==
    /\ \A p \in Procs : ~Busy(p)
    /\ stats.adds = 2
    /\ Len(PersistedVibes) = 1
    /\ HasResults(PersistedVibes[1])
    /\ stats.clobbered = {"search"}

====
